---- MODULE Spec2Model ----
(***************************************************************************)
(* A model of putong's SplitTimer<num_splits, clock> (include/putong/      *)
(* status.h).  Time points are integer nanosecond counts; a default        *)
(* constructed time point is the clock's epoch, 0.  A double of seconds is *)
(* modelled by the nanosecond count it is computed from (duration<double>  *)
(* is that count scaled by 1e-9).                                          *)
(*                                                                         *)
(* Split() is three steps of the calling thread: the overflow check (a     *)
(* load of split_idx, compiled out under NDEBUG), the fetch_add, and the   *)
(* store of clock::now() into splits[idx].  A store with idx > num_splits  *)
(* is out of the bounds of splits: undefined behaviour, modelled as a      *)
(* choice among the places one stray 8-byte store can land.                *)
(***************************************************************************)
EXTENDS Integers, Sequences, FiniteSets, TLC

\* Bounds of the model.
MaxSplits == 2      \* num_splits ranges over 1..MaxSplits
NumThreads == 3     \* threads of the concurrent run
MaxTime == 2        \* last reading of the clock of the concurrent run
MaxTick == 1        \* largest fixed increment of the clock per now()
MaxExtra == 1       \* captures of an advancing clock beyond num_splits + 1
MaxCalls == 4       \* Start() and Stop() calls on the interval Timer

Inst == {"x", "y"}
Threads == 1..NumThreads

VARIABLES
  num_splits,   \* template parameter num_splits
  ndebug,       \* TRUE iff the build defines NDEBUG
  tick,         \* the clock advances by tick with every now() (and by Tick)
  nthreads,     \* number of threads of the host program
  clock,        \* the value the next clock::now() returns
  live,         \* the constructed instances
  splits,       \* splits[i][k]: member splits of instance i
  split_idx,    \* split_idx[i]: member split_idx (the cursor) of instance i
  pc,           \* pc[t]: where thread t is inside Split()
  obj,          \* obj[t]: the instance thread t's call is on
  idx,          \* idx[t]: the local idx of thread t's Split()
  outcome,      \* outcome[t]: how thread t's latest Split() call ended
  todo,         \* todo[t]: Split() calls thread t still makes in the concurrent run
  oob,          \* <<i, k>>: a store to splits[k] of i with k > num_splits was executed
  crashed,      \* the process was terminated by a stray store
  log,          \* log[i]: the captures on i since its last Start() or construction
  result,       \* the vector a seconds() call returned, in the state after the call
  os,           \* what a report() call wrote to its stream, in the state after the call
  start_,       \* member start_ of the interval Timer
  stop_,        \* member stop_ of the interval Timer
  tlog,         \* the Start() and Stop() calls made on the Timer, with their captures
  tsecs         \* <<d>>: Timer::seconds() returned d, in the state after the call

config == <<num_splits, ndebug, tick, nthreads>>
timers == <<live, splits, split_idx>>
calls == <<pc, obj, idx, outcome>>
interval == <<start_, stop_, tlog, tsecs>>
vars == <<config, clock, timers, calls, todo, oob, crashed, log, result, os, interval>>

Live == 1..nthreads
Slots == 0..num_splits

\* The largest reading the model lets the clock return.
TimeCap == IF tick = 0 THEN MaxTime ELSE 1 + tick * (num_splits + MaxExtra)

\* The log of an instance holds at most this many captures.
LogCap == num_splits + 2

Logged(l, e) == IF Len(l) < LogCap THEN Append(l, e) ELSE l

----------------------------------------------------------------------------
\* Pure parts of the member functions, on an object o = [splits, split_idx].

Obj(i) == [splits |-> splits[i], split_idx |-> split_idx[i]]

\* Mutant: the cursor of a new timer is 1, as if slot 0 were taken.
DefaultInit_CursorOne == [splits |-> [k \in Slots |-> 0], split_idx |-> 1]

\* point splits[num_splits + 1]; std::atomic<size_t> split_idx = 0;
DefaultInit == [splits |-> [k \in Slots |-> 0], split_idx |-> 0]

\* Mutant: Start() without split_idx.store(1).
StartOn_NoReset(o, now) == [splits |-> [o.splits EXCEPT ![0] = now], split_idx |-> o.split_idx]

\* Start(): splits[0] = clock::now(); split_idx.store(1);
StartOn(o, now) == [splits |-> [o.splits EXCEPT ![0] = now], split_idx |-> 1]

\* Mutant: the loop stops one element short (i < num_splits).
RECURSIVE CopyLoop_SkipLast(_, _, _)
CopyLoop_SkipLast(dst, src, i) ==
  IF i < num_splits
    THEN CopyLoop_SkipLast([dst EXCEPT ![i] = src[i]], src, i + 1)
    ELSE dst

\* The copy loop: for (i = 0; i < num_splits + 1; i++) splits[i] = s.splits[i];
RECURSIVE CopyLoop(_, _, _)
CopyLoop(dst, src, i) ==
  IF i < num_splits + 1
    THEN CopyLoop([dst EXCEPT ![i] = src[i]], src, i + 1)
    ELSE dst

\* The body shared by the copy constructor and operator=.
CopyFrom(o, s) == [splits |-> CopyLoop(o.splits, s.splits, 0), split_idx |-> s.split_idx]

\* Mutant: every interval is taken from splits[0] (splits[i] - splits[0]).
RECURSIVE SecondsLoop_FromStart(_, _, _)
SecondsLoop_FromStart(s, i, res) ==
  IF i < num_splits + 1
    THEN SecondsLoop_FromStart(s, i + 1, Append(res, s[i] - s[0]))
    ELSE res

\* seconds(): for (i = 1; i < num_splits + 1; i++) push_back(splits[i] - splits[i-1])
RECURSIVE SecondsLoop(_, _, _)
SecondsLoop(s, i, res) ==
  IF i < num_splits + 1
    THEN SecondsLoop(s, i + 1, Append(res, s[i] - s[i - 1]))
    ELSE res

seconds(i) == SecondsLoop(splits[i], 1, <<>>)

\* Mutant: every interval is followed by ",", the last one too.
RECURSIVE ReportLoop_Trailing(_, _, _)
ReportLoop_Trailing(intervals, i, out) ==
  IF i < Len(intervals)
    THEN ReportLoop_Trailing(intervals, i + 1, out \o <<intervals[i + 1], ",">>)
    ELSE out

\* report(): every interval, followed by "," unless it is the last one.  The
\* stream is the sequence of the items written; a formatted number is one item.
RECURSIVE ReportLoop(_, _, _)
ReportLoop(intervals, i, out) ==
  IF i < Len(intervals)
    THEN IF i < Len(intervals) - 1
           THEN ReportLoop(intervals, i + 1, out \o <<intervals[i + 1], ",">>)
           ELSE ReportLoop(intervals, i + 1, out \o <<intervals[i + 1]>>)
    ELSE out

----------------------------------------------------------------------------
\* Helpers of the actions.

Put(i, o) ==
  /\ splits' = [splits EXCEPT ![i] = o.splits]
  /\ split_idx' = [split_idx EXCEPT ![i] = o.split_idx]

\* clock::now() returned clock; a fake clock then advances by tick.
Captured == clock' = clock + tick

\* The model follows a run up to and including its first out-of-bounds store.
Running == ~crashed /\ oob = {}

Idle(t) == Running /\ t \in Live /\ pc[t] = "idle"

At(t, where) == Running /\ t \in Live /\ pc[t] = where

\* The value a query returned is consumed by its caller: no later state holds it.
NoOutput == result' = <<>> /\ os' = <<>>

\* Log entries: the call, the reading it captured and the index it stored to.
StartEntry == [op |-> "Start", at |-> clock, slot |-> 0]
SplitEntry(k) == [op |-> "Split", at |-> clock, slot |-> k]

----------------------------------------------------------------------------
\* Construction.

\* SplitTimer(bool start): the members' initializers, then Start() if start.
Construct(t, i, start) ==
  /\ Idle(t) /\ i \notin live
  /\ start => clock <= TimeCap
  /\ live' = live \cup {i}
  /\ Put(i, IF start THEN StartOn(DefaultInit, clock) ELSE DefaultInit)
  /\ log' = [log EXCEPT ![i] = IF start THEN <<StartEntry>> ELSE <<>>]
  /\ clock' = IF start THEN clock + tick ELSE clock
  /\ UNCHANGED <<config, interval, calls, todo, oob, crashed>> /\ NoOutput

\* SplitTimer(const SplitTimer& s)
CopyConstruct(t, i, s) ==
  /\ Idle(t) /\ i \notin live /\ s \in live
  /\ live' = live \cup {i}
  /\ Put(i, CopyFrom(DefaultInit, Obj(s)))
  /\ log' = [log EXCEPT ![i] = log[s]]
  /\ UNCHANGED <<config, interval, clock, calls, todo, oob, crashed>> /\ NoOutput

\* SplitTimer& operator=(const SplitTimer& other)
CopyAssign(t, i, other) ==
  /\ Idle(t) /\ i \in live /\ other \in live /\ i # other
  /\ Put(i, CopyFrom(Obj(i), Obj(other)))
  /\ log' = [log EXCEPT ![i] = log[other]]
  /\ UNCHANGED <<config, interval, clock, live, calls, todo, oob, crashed>> /\ NoOutput

----------------------------------------------------------------------------
\* Start() and Split().

Start(t, i) ==
  /\ Idle(t) /\ i \in live
  /\ clock <= TimeCap
  /\ Put(i, StartOn(Obj(i), clock))
  /\ log' = [log EXCEPT ![i] = <<StartEntry>>]
  /\ Captured
  /\ UNCHANGED <<config, interval, live, calls, todo, oob, crashed>> /\ NoOutput

\* Thread t enters Split() on instance i.
SplitCall(t, i) ==
  /\ Idle(t) /\ i \in live
  /\ clock <= TimeCap
  /\ pc' = [pc EXCEPT ![t] = "check"]
  /\ obj' = [obj EXCEPT ![t] = i]
  /\ outcome' = [outcome EXCEPT ![t] = "none"]
  /\ UNCHANGED <<config, interval, clock, timers, idx, oob, crashed, log>> /\ NoOutput

\* Mutant: the check is off by one (split_idx >= num_splits).
Overflows_OffByOne(i) == ~ndebug /\ split_idx[i] >= num_splits

\* The condition of the throw: #ifndef NDEBUG  if (split_idx > num_splits)
Overflows(i) == ~ndebug /\ split_idx[i] > num_splits

\* Mutant: the cursor is advanced before the check, so a failed call counts.
SplitCheck_CountsFailed(t) ==
  /\ At(t, "check")
  /\ IF Overflows(obj[t])
       THEN /\ pc' = [pc EXCEPT ![t] = "idle"]
            /\ obj' = [obj EXCEPT ![t] = "x"]
            /\ outcome' = [outcome EXCEPT ![t] = "overflow"]
            /\ split_idx' = [split_idx EXCEPT ![obj[t]] = @ + 1]
       ELSE /\ pc' = [pc EXCEPT ![t] = "fetch_add"]
            /\ UNCHANGED <<obj, outcome, split_idx>>
  /\ UNCHANGED <<config, interval, clock, live, splits, idx, todo, oob, crashed, log>> /\ NoOutput

\* Lines 192-197: the overflow check, absent from an NDEBUG build.
SplitCheck(t) ==
  /\ At(t, "check")
  /\ IF Overflows(obj[t])
       THEN /\ pc' = [pc EXCEPT ![t] = "idle"]
            /\ obj' = [obj EXCEPT ![t] = "x"]
            /\ outcome' = [outcome EXCEPT ![t] = "overflow"]
       ELSE /\ pc' = [pc EXCEPT ![t] = "fetch_add"]
            /\ UNCHANGED <<obj, outcome>>
  /\ UNCHANGED <<config, interval, clock, timers, idx, todo, oob, crashed, log>> /\ NoOutput

\* Mutant: a plain read followed by a separate write of split_idx.
SplitFetchAdd_ReadThenWrite(t) ==
  /\ \/ /\ At(t, "fetch_add")
        /\ idx' = [idx EXCEPT ![t] = split_idx[obj[t]]]
        /\ pc' = [pc EXCEPT ![t] = "add"]
        /\ UNCHANGED split_idx
     \/ /\ At(t, "add")
        /\ split_idx' = [split_idx EXCEPT ![obj[t]] = idx[t] + 1]
        /\ pc' = [pc EXCEPT ![t] = "write"]
        /\ UNCHANGED idx
  /\ UNCHANGED <<config, interval, clock, live, splits, obj, outcome, todo, oob, crashed, log>> /\ NoOutput

\* Mutant: auto idx = ++split_idx;
SplitFetchAdd_PreIncrement(t) ==
  /\ At(t, "fetch_add")
  /\ idx' = [idx EXCEPT ![t] = split_idx[obj[t]] + 1]
  /\ split_idx' = [split_idx EXCEPT ![obj[t]] = @ + 1]
  /\ pc' = [pc EXCEPT ![t] = "write"]
  /\ UNCHANGED <<config, interval, clock, live, splits, obj, outcome, todo, oob, crashed, log>> /\ NoOutput

\* Mutant: the cursor wraps to 1 instead of reaching num_splits + 1.
SplitFetchAdd_Wrap(t) ==
  /\ At(t, "fetch_add")
  /\ idx' = [idx EXCEPT ![t] = split_idx[obj[t]]]
  /\ split_idx' = [split_idx EXCEPT ![obj[t]] = IF @ + 1 > num_splits THEN 1 ELSE @ + 1]
  /\ pc' = [pc EXCEPT ![t] = "write"]
  /\ UNCHANGED <<config, interval, clock, live, splits, obj, outcome, todo, oob, crashed, log>> /\ NoOutput

\* Line 198: auto idx = split_idx.fetch_add(1);
SplitFetchAdd(t) ==
  /\ At(t, "fetch_add")
  /\ idx' = [idx EXCEPT ![t] = split_idx[obj[t]]]
  /\ split_idx' = [split_idx EXCEPT ![obj[t]] = @ + 1]
  /\ pc' = [pc EXCEPT ![t] = "write"]
  /\ UNCHANGED <<config, interval, clock, live, splits, obj, outcome, todo, oob, crashed, log>> /\ NoOutput

\* A store of v through splits[k] with k > num_splits: it lands on a cursor
\* (split_idx is the member laid out after splits), on a slot of the other
\* instance, in memory the model does not hold, or it ends the process.
StrayStore(i, v) ==
  \/ \E j \in live :
       /\ split_idx' = [split_idx EXCEPT ![j] = v]
       /\ UNCHANGED <<splits, crashed>>
  \/ \E j \in live \ {i}, k \in Slots :
       /\ splits' = [splits EXCEPT ![j][k] = v]
       /\ UNCHANGED <<split_idx, crashed>>
  \/ UNCHANGED <<splits, split_idx, crashed>>
  \/ crashed' = TRUE /\ UNCHANGED <<splits, split_idx>>

\* Mutant: the call returns without having stored the reading.
SplitWrite_Lost(t) ==
  /\ At(t, "write")
  /\ LET i == obj[t]
         k == idx[t]
     IN  /\ IF k \in Slots
              THEN /\ splits' = splits
                   /\ UNCHANGED <<split_idx, oob, crashed>>
              ELSE /\ oob' = oob \cup {<<i, k>>}
                   /\ StrayStore(i, clock)
         /\ log' = [log EXCEPT ![i] = Logged(@, SplitEntry(k))]
  /\ Captured
  /\ IF crashed'
       THEN /\ outcome' = [outcome EXCEPT ![t] = "killed"]
            /\ UNCHANGED <<pc, obj, idx>>
       ELSE /\ pc' = [pc EXCEPT ![t] = "idle"]
            /\ obj' = [obj EXCEPT ![t] = "x"]
            /\ idx' = [idx EXCEPT ![t] = 0]
            /\ outcome' = [outcome EXCEPT ![t] = "returned"]
  /\ UNCHANGED <<config, interval, live, todo>> /\ NoOutput

\* Line 199: splits[idx] = clock::now();  The call returns unless the store
\* ended the process.
SplitWrite(t) ==
  /\ At(t, "write")
  /\ LET i == obj[t]
         k == idx[t]
     IN  /\ IF k \in Slots
              THEN /\ splits' = [splits EXCEPT ![i][k] = clock]
                   /\ UNCHANGED <<split_idx, oob, crashed>>
              ELSE /\ oob' = oob \cup {<<i, k>>}
                   /\ StrayStore(i, clock)
         /\ log' = [log EXCEPT ![i] = Logged(@, SplitEntry(k))]
  /\ Captured
  /\ IF crashed'
       THEN /\ outcome' = [outcome EXCEPT ![t] = "killed"]
            /\ UNCHANGED <<pc, obj, idx>>
       ELSE /\ pc' = [pc EXCEPT ![t] = "idle"]
            /\ obj' = [obj EXCEPT ![t] = "x"]
            /\ idx' = [idx EXCEPT ![t] = 0]
            /\ outcome' = [outcome EXCEPT ![t] = "returned"]
  /\ UNCHANGED <<config, interval, live, todo>> /\ NoOutput

----------------------------------------------------------------------------
\* The queries.

\* Mutant: a query that consumes a slot (the cursor moves on).
Seconds_Advance(t, i) ==
  /\ Idle(t) /\ i \in live
  /\ result' = seconds(i)
  /\ os' = <<>>
  /\ split_idx' = [split_idx EXCEPT ![i] = @ + 1]
  /\ UNCHANGED <<config, interval, clock, live, splits, calls, todo, oob, crashed, log>>

\* seconds() const: the vector of the num_splits differences.
Seconds(t, i) ==
  /\ Idle(t) /\ i \in live
  /\ result' = seconds(i)
  /\ os' = <<>>
  /\ UNCHANGED <<config, interval, clock, timers, calls, todo, oob, crashed, log>>

\* report(os, precision) const
Report(t, i) ==
  /\ Idle(t) /\ i \in live
  /\ os' = ReportLoop(seconds(i), 0, <<>>)
  /\ result' = <<>>
  /\ UNCHANGED <<config, interval, clock, timers, calls, todo, oob, crashed, log>>

\* Mutant: a clock that is set back.
Tick_Backwards ==
  /\ Running /\ tick = 0 /\ clock > 0
  /\ clock' = clock - 1
  /\ UNCHANGED <<config, interval, timers, calls, todo, oob, crashed, log>> /\ NoOutput

\* The steady clock advances between two captures.
Tick ==
  /\ Running /\ tick = 0 /\ clock < MaxTime
  /\ clock' = clock + 1
  /\ UNCHANGED <<config, interval, timers, calls, todo, oob, crashed, log>> /\ NoOutput

----------------------------------------------------------------------------
\* The single-threaded host: one thread uses the whole interface on x and y.

Split(t, i) == SplitCall(t, i) /\ UNCHANGED todo

InitCommon ==
  /\ num_splits \in 1..MaxSplits
  /\ ndebug \in BOOLEAN
  /\ clock = 1
  /\ pc = [t \in Threads |-> "idle"]
  /\ obj = [t \in Threads |-> "x"]
  /\ idx = [t \in Threads |-> 0]
  /\ outcome = [t \in Threads |-> "none"]
  /\ oob = {}
  /\ crashed = FALSE
  /\ result = <<>>
  /\ os = <<>>
  /\ start_ = 0 /\ stop_ = 0 /\ tlog = <<>> /\ tsecs = <<>>

\* SplitTimer<num_splits> x(start);
Init ==
  /\ InitCommon
  /\ tick \in 0..MaxTick
  /\ nthreads = 1
  /\ todo = [t \in Threads |-> 0]
  /\ live = {"x"}
  /\ \E start \in BOOLEAN :
       /\ splits = [i \in Inst |-> IF i = "x" /\ start
                                     THEN StartOn(DefaultInit, 1).splits
                                     ELSE DefaultInit.splits]
       /\ split_idx = [i \in Inst |-> IF i = "x" /\ start THEN 1 ELSE 0]
       /\ log = [i \in Inst |-> IF i = "x" /\ start
                                  THEN <<StartEntry>>
                                  ELSE <<>>]

Next ==
  \/ \E t \in Threads, i \in Inst, start \in BOOLEAN : Construct(t, i, start)
  \/ \E t \in Threads, i \in Inst, s \in Inst : CopyConstruct(t, i, s)
  \/ \E t \in Threads, i \in Inst, other \in Inst : CopyAssign(t, i, other)
  \/ \E t \in Threads, i \in Inst : Start(t, i)
  \/ \E t \in Threads, i \in Inst : Split(t, i)
  \/ \E t \in Threads : SplitCheck(t)
  \/ \E t \in Threads : SplitFetchAdd(t)
  \/ \E t \in Threads : SplitWrite(t)
  \/ \E t \in Threads, i \in Inst : Seconds(t, i)
  \/ \E t \in Threads, i \in Inst : Report(t, i)

Spec == Init /\ [][Next]_vars

----------------------------------------------------------------------------
\* The single-threaded host on a steady clock: between two captures the clock
\* stands still or advances.

InitSteady == Init /\ tick = 0

NextSteady ==
  \/ \E t \in Threads, i \in Inst, start \in BOOLEAN : Construct(t, i, start)
  \/ \E t \in Threads, i \in Inst, s \in Inst : CopyConstruct(t, i, s)
  \/ \E t \in Threads, i \in Inst, other \in Inst : CopyAssign(t, i, other)
  \/ \E t \in Threads, i \in Inst : Start(t, i)
  \/ \E t \in Threads, i \in Inst : Split(t, i)
  \/ \E t \in Threads : SplitCheck(t)
  \/ \E t \in Threads : SplitFetchAdd(t)
  \/ \E t \in Threads : SplitWrite(t)
  \/ \E t \in Threads, i \in Inst : Seconds(t, i)
  \/ \E t \in Threads, i \in Inst : Report(t, i)
  \/ Tick

SpecSteady == InitSteady /\ [][NextSteady]_vars

----------------------------------------------------------------------------
\* The concurrent run: x was started once by the constructing thread, then
\* each of nthreads threads calls Split() on x once.

WorkerSplit(t) ==
  /\ todo[t] > 0
  /\ SplitCall(t, "x")
  /\ todo' = [todo EXCEPT ![t] = @ - 1]

\* SplitTimer<num_splits> x(true);
InitConc ==
  /\ InitCommon
  /\ tick = 0
  /\ nthreads \in 1..NumThreads
  /\ todo = [t \in Threads |-> IF t <= nthreads THEN 1 ELSE 0]
  /\ live = {"x"}
  /\ splits = [i \in Inst |-> IF i = "x" THEN StartOn(DefaultInit, 1).splits
                                          ELSE DefaultInit.splits]
  /\ split_idx = [i \in Inst |-> IF i = "x" THEN 1 ELSE 0]
  /\ log = [i \in Inst |-> IF i = "x" THEN <<StartEntry>>
                                       ELSE <<>>]

NextConc ==
  \/ \E t \in Threads : WorkerSplit(t)
  \/ \E t \in Threads : SplitCheck(t)
  \/ \E t \in Threads : SplitFetchAdd(t)
  \/ \E t \in Threads : SplitWrite(t)
  \/ Tick

SpecConc == InitConc /\ [][NextConc]_vars

----------------------------------------------------------------------------
\* The interval Timer<clock>: point start_{}; point stop_{};

TimerIdle == Len(tlog) < MaxCalls /\ clock <= MaxCalls + 1

\* Timer::Start(): start_ = clock::now();
TimerStart ==
  /\ TimerIdle
  /\ start_' = clock
  /\ tlog' = Append(tlog, [op |-> "Start", at |-> clock])
  /\ tsecs' = <<>>
  /\ Captured
  /\ UNCHANGED <<config, timers, calls, todo, oob, crashed, log, result, os, stop_>>

\* Mutant: Stop() also restarts the interval.
TimerStop_Restart ==
  /\ TimerIdle
  /\ stop_' = clock /\ start_' = clock
  /\ tlog' = Append(tlog, [op |-> "Stop", at |-> clock])
  /\ tsecs' = <<>>
  /\ Captured
  /\ UNCHANGED <<config, timers, calls, todo, oob, crashed, log, result, os>>

\* Timer::Stop(): stop_ = clock::now();
TimerStop ==
  /\ TimerIdle
  /\ stop_' = clock
  /\ tlog' = Append(tlog, [op |-> "Stop", at |-> clock])
  /\ tsecs' = <<>>
  /\ Captured
  /\ UNCHANGED <<config, timers, calls, todo, oob, crashed, log, result, os, start_>>

\* Timer::seconds() const: duration diff = stop_ - start_; return diff.count();
TimerSeconds ==
  /\ tsecs' = <<stop_ - start_>>
  /\ UNCHANGED <<config, clock, timers, calls, todo, oob, crashed, log, result, os,
                 start_, stop_, tlog>>

\* Timer<> t(start); no SplitTimer exists in this run.
InitTimer ==
  /\ num_splits = 1 /\ ndebug = FALSE /\ nthreads = 1
  /\ tick \in 0..MaxTick
  /\ pc = [t \in Threads |-> "idle"]
  /\ obj = [t \in Threads |-> "x"]
  /\ idx = [t \in Threads |-> 0]
  /\ outcome = [t \in Threads |-> "none"]
  /\ todo = [t \in Threads |-> 0]
  /\ oob = {} /\ crashed = FALSE
  /\ live = {}
  /\ splits = [i \in Inst |-> DefaultInit.splits]
  /\ split_idx = [i \in Inst |-> 0]
  /\ log = [i \in Inst |-> <<>>]
  /\ result = <<>> /\ os = <<>>
  /\ stop_ = 0 /\ tsecs = <<>>
  /\ \E start \in BOOLEAN :
       /\ start_ = IF start THEN 1 ELSE 0
       /\ tlog = IF start THEN <<[op |-> "Start", at |-> 1]>> ELSE <<>>
       /\ clock = IF start THEN 1 + tick ELSE 1

NextTimer ==
  \/ TimerStart
  \/ TimerStop
  \/ TimerSeconds
  \/ Tick

SpecTimer == InitTimer /\ [][NextTimer]_vars

----------------------------------------------------------------------------
\* Claims.

\* The slots the logged captures of instance i stored to.
Writes(i, k) == {n \in 1..Len(log[i]) : log[i][n].op = "Split" /\ log[i][n].slot = k}

AllReturned == \A t \in Live : pc[t] = "idle" /\ todo[t] = 0

\* C1: when T <= N threads each call Split() once on a timer started once, the
\* calls hold pairwise distinct slot indices, no slot is stored to by two
\* calls, and once all calls have returned the cursor is 1 + T and each of
\* the slots 1..T was stored to exactly once.
C1_DistinctSlots ==
  nthreads <= num_splits =>
    /\ \A t, u \in Live :
         (t # u /\ pc[t] = "write" /\ pc[u] = "write") => idx[t] # idx[u]
    /\ \A t \in Live : pc[t] = "write" => Writes("x", idx[t]) = {}
    /\ \A k \in Slots : Cardinality(Writes("x", k)) <= 1
    /\ AllReturned =>
         /\ split_idx["x"] = 1 + nthreads
         /\ \A k \in 1..nthreads : Cardinality(Writes("x", k)) = 1
         /\ \A k \in Slots \ (1..nthreads) : Writes("x", k) = {}
         /\ oob = {}

\* N threads have all returned and every split slot was stored to.
C1_Witness ==
  /\ nthreads = num_splits /\ num_splits >= 2
  /\ AllReturned
  /\ \A k \in 1..num_splits : Cardinality(Writes("x", k)) = 1

\* C2: a Split() call entered with the cursor at N + 1 does not get past the
\* overflow check, and no store goes to an index outside 0..N, in either build.
C2_OverflowSignalled ==
  /\ \A t \in Live :
       pc[t] \in {"fetch_add", "write"} =>
         (IF pc[t] = "write" THEN idx[t] ELSE split_idx[obj[t]]) # num_splits + 1
  /\ oob = {}

\* C3: in a build with the check, under every interleaving no call holds an
\* index greater than N past the check, so none stores at an index > N.
C3_NoStoreBeyondN ==
  ~ndebug =>
    /\ \A t \in Live : pc[t] = "write" => idx[t] <= num_splits
    /\ oob = {}

\* Predicates on the history of an instance.
HasStart(i) == log[i] # <<>> /\ log[i][1].op = "Start"
Quiet == \A t \in Live : pc[t] = "idle"
\* No out-of-bounds store has been executed.
Defined == oob = {}
\* Thread t takes a step of a Split() call on instance i.
SplitStep(t, i) ==
  \/ Split(t, i)
  \/ obj[t] = i /\ (SplitCheck(t) \/ SplitFetchAdd(t) \/ SplitWrite(t))
\* With a fake clock no two captures return the same reading: two instances
\* whose logs begin with the same capture are a timer and its copy.
CopyPair == tick > 0 /\ live = Inst /\ HasStart("x") /\ HasStart("y") /\ log["x"][1] = log["y"][1]

\* C4: copy construction and copy assignment give the target the source's
\* cursor and the source's slots 0..N, and leave the source as it was.
C4_CopyEqualsSource ==
  [][\A t \in Threads, d \in Inst, s \in Inst :
       (CopyConstruct(t, d, s) \/ CopyAssign(t, d, s)) =>
         /\ split_idx'[d] = split_idx[s]
         /\ \A k \in Slots : splits'[d][k] = splits[s][k]
         /\ splits'[s] = splits[s] /\ split_idx'[s] = split_idx[s]]_vars

\* y is a copy of x taken when x was started and full.
C4_Witness ==
  /\ CopyPair /\ num_splits >= 2
  /\ Len(log["x"]) = num_splits + 1 /\ log["y"] = log["x"]
  /\ split_idx["y"] = num_splits + 1
  /\ \A k \in Slots : splits["y"][k] = splits["x"][k] /\ splits["x"][k] = log["x"][k + 1].at

\* C5: a step of Start() or Split() on one of a timer and its copy changes no
\* slot and not the cursor of the other.
C5_Independent ==
  [][\A t \in Threads, i \in Inst :
       (CopyPair /\ (Start(t, i) \/ SplitStep(t, i))) =>
         \A j \in Inst \ {i} : splits'[j] = splits[j] /\ split_idx'[j] = split_idx[j]]_vars

\* The last Start() on i came after at least one split: a slot that no call
\* has stored to since that Start() holds a reading (the clock never reads 0).
Restarted(i) ==
  /\ HasStart(i)
  /\ \E m \in Len(log[i])..num_splits : splits[i][m] # 0

\* C6 as stated: after a Start() that came after k splits, every value of
\* seconds() is the difference of two captures made since that Start().
C6_OnlyNewSequence ==
  \A i \in live :
    (Restarted(i) /\ Quiet /\ Defined) =>
      /\ split_idx[i] = Len(log[i])
      /\ \A m \in 1..num_splits :
           /\ m + 1 <= Len(log[i])
           /\ seconds(i)[m] = log[i][m + 1].at - log[i][m].at

\* C6 amended: after such a Start() and j further Split() calls the cursor is
\* j + 1 (1 right after the Start()) and the first j values of seconds() are
\* the differences of the consecutive captures made since that Start().
C6_NewSequencePrefix ==
  \A i \in live :
    (Restarted(i) /\ Quiet /\ Defined) =>
      /\ split_idx[i] = Len(log[i])
      /\ Len(seconds(i)) = num_splits
      /\ \A m \in 1..(Len(log[i]) - 1) :
           seconds(i)[m] = log[i][m + 1].at - log[i][m].at

\* A restarted timer with one new split and an older slot behind it.
C6_Witness ==
  /\ num_splits >= 2 /\ Restarted("x") /\ Quiet /\ Defined
  /\ Len(log["x"]) = 2 /\ split_idx["x"] = 2
  /\ result = seconds("x")

\* The captures logged for i are consecutive readings of the fake clock.
Consecutive(i) == \A n \in 1..Len(log[i]) : log[i][n].at = log[i][1].at + (n - 1) * tick

\* C7: with a fake clock advancing by tick per capture, after Start() and N
\* Split() calls seconds() returns N values, each equal to tick.
C7_FixedIncrement ==
  \A i \in live :
    (tick > 0 /\ HasStart(i) /\ Len(log[i]) = num_splits + 1
       /\ Consecutive(i) /\ Quiet /\ Defined) =>
      /\ Len(seconds(i)) = num_splits
      /\ \A m \in 1..num_splits : seconds(i)[m] = tick
      /\ \A m \in 1..num_splits : seconds(i)[m] = splits[i][m] - splits[i][m - 1]

C7_Witness ==
  /\ tick = MaxTick /\ num_splits = MaxSplits
  /\ HasStart("x") /\ Len(log["x"]) = num_splits + 1 /\ Consecutive("x")
  /\ Quiet /\ Defined
  /\ result = [m \in 1..num_splits |-> tick]

\* C8: the cursor is 0 on a timer with no capture, 1 after Start(), the
\* number of captures after Start() and k Split() calls within capacity; a
\* Split() within capacity stores to the slot the cursor named and adds one to
\* the cursor; no step of Split(), seconds() or report() within capacity
\* lowers a cursor.
C8_State ==
  \A i \in live :
    (Quiet /\ Defined /\ Len(log[i]) <= num_splits + 1) =>
      /\ split_idx[i] = Len(log[i])
      /\ \A n \in 1..Len(log[i]) :
           log[i][n].slot = n - 1 /\ splits[i][n - 1] = log[i][n].at

C8_Step ==
  \A t \in Threads :
    /\ \A i \in Inst : Start(t, i) => split_idx'[i] = 1 /\ splits'[i][0] = clock
    /\ SplitFetchAdd(t) =>
         /\ idx'[t] = split_idx[obj[t]]
         /\ split_idx'[obj[t]] = split_idx[obj[t]] + 1
    /\ (SplitWrite(t) /\ idx[t] \in Slots) =>
         /\ splits'[obj[t]][idx[t]] = clock
         /\ \A k \in Slots \ {idx[t]} : splits'[obj[t]][k] = splits[obj[t]][k]
         /\ split_idx' = split_idx
         /\ split_idx[obj[t]] = idx[t] + 1
    /\ \A i \in Inst :
         ((SplitStep(t, i) /\ (pc[t] = "write" => idx[t] \in Slots))
            \/ Seconds(t, i) \/ Report(t, i)) =>
           \A j \in Inst : split_idx'[j] >= split_idx[j]

\* C8: the cursor values of C8_State hold in every reachable state and every
\* step of Split(), seconds() and report() obeys C8_Step.
C8_CursorProgression == []C8_State /\ [][C8_Step]_vars

\* Started, then N - 1 splits, on a timer of capacity N >= 2.
C8_Witness ==
  /\ num_splits >= 2 /\ HasStart("x") /\ Quiet /\ Defined
  /\ Len(log["x"]) = num_splits /\ split_idx["x"] = num_splits
  /\ log["x"][num_splits].op = "Split"

\* C9: in a build with the check, single-threaded: the cursor stays within
\* 0..N+1; a Split() entered with the cursor within 0..N passes the check and
\* one entered with the cursor at N + 1 signals overflow, so after Start()
\* exactly N calls store, to slots 1..N.
C9_State ==
  ~ndebug =>
    /\ Defined
    /\ \A i \in live :
         /\ split_idx[i] \in 0..(num_splits + 1)
         /\ HasStart(i) =>
              /\ Len(log[i]) <= num_splits + 1
              /\ \A n \in 2..Len(log[i]) : log[i][n].slot = n - 1
    /\ \A t \in Live : pc[t] = "write" => idx[t] \in Slots

C9_Step ==
  ~ndebug =>
    \A t \in Threads :
      SplitCheck(t) =>
        /\ split_idx[obj[t]] <= num_splits => pc'[t] = "fetch_add" /\ outcome'[t] = "none"
        /\ split_idx[obj[t]] = num_splits + 1 =>
             /\ outcome'[t] = "overflow" /\ pc'[t] = "idle"
             /\ UNCHANGED <<splits, split_idx>>

\* C9: the cursor range of C9_State holds in every reachable state and every
\* Split() step of a build with the check obeys C9_Step.
C9_CapacityN == []C9_State /\ [][C9_Step]_vars

\* The call after Start() and N splits has signalled overflow.
C9_Witness ==
  /\ ~ndebug /\ num_splits >= 2
  /\ HasStart("x") /\ Len(log["x"]) = num_splits + 1
  /\ log["x"][num_splits + 1].slot = num_splits
  /\ split_idx["x"] = num_splits + 1
  /\ outcome[1] = "overflow"

\* A step of thread t that belongs to a Split(), seconds() or report() call.
QueryOrSplit(t) == \E i \in Inst : SplitStep(t, i) \/ Seconds(t, i) \/ Report(t, i)

StartSetsOne == \A t \in Threads, i \in Inst : Start(t, i) => split_idx'[i] = 1

\* C10 as stated: Start() moves the cursor to 1 from every state, and no step
\* of Split(), seconds() or report() takes a cursor from a value other than 1
\* to 1.
C10_OnlyStartResets ==
  [][/\ StartSetsOne
     /\ \A t \in Threads :
          QueryOrSplit(t) =>
            \A i \in Inst : split_idx[i] # 1 => split_idx'[i] # 1]_vars

\* C10 amended: Start() moves the cursor to 1 from every state; seconds() and
\* report() change no cursor; a step of Split() takes a cursor from a value
\* other than 1 to 1 only as the fetch_add on a cursor of 0 or as the store
\* of a call whose index is greater than N.
C10_ResetsToOne ==
  [][/\ StartSetsOne
     /\ \A t \in Threads :
          /\ (\E i \in Inst : Seconds(t, i) \/ Report(t, i)) => split_idx' = split_idx
          /\ \A i \in Inst :
               (QueryOrSplit(t) /\ split_idx[i] # 1 /\ split_idx'[i] = 1) =>
                 \/ SplitFetchAdd(t) /\ obj[t] = i /\ split_idx[i] = 0
                 \/ SplitWrite(t) /\ idx[t] > num_splits]_vars

\* Start() on a full timer: the cursor is 1 and the last slot holds an older capture.
C10_Witness ==
  /\ HasStart("x") /\ Len(log["x"]) = 1 /\ num_splits >= 2
  /\ split_idx["x"] = 1 /\ \A m \in 1..num_splits : splits["x"][m] # 0
  /\ Defined

\* C11: a seconds() call returns exactly N values, value m computed from the
\* slots m - 1 and m (both within 0..N), changes no slot and no cursor, and a
\* second call made in the state it leaves returns the same sequence.
C11_SecondsPure ==
  [][\A t \in Threads, i \in Inst :
       Seconds(t, i) =>
         /\ Len(result') = num_splits
         /\ \A m \in 1..num_splits :
              /\ {m - 1, m} \subseteq Slots
              /\ result'[m] = splits[i][m] - splits[i][m - 1]
         /\ splits' = splits /\ split_idx' = split_idx /\ live' = live
         /\ SecondsLoop(splits'[i], 1, <<>>) = result']_vars

\* seconds() was called on a partially filled timer: the last value is taken
\* from a slot that was never stored to.
C11_Witness ==
  /\ num_splits >= 2 /\ HasStart("x") /\ ~Restarted("x") /\ Quiet /\ Defined
  /\ Len(log["x"]) = num_splits
  /\ result = seconds("x") /\ result[num_splits] = 0 - splits["x"][num_splits - 1]

\* The capture of the most recent op call on the Timer, the zero default if none.
LastAt(op) ==
  LET calls_of == {n \in 1..Len(tlog) : tlog[n].op = op}
  IN  IF calls_of = {} THEN 0
      ELSE tlog[CHOOSE n \in calls_of : \A m \in calls_of : m <= n].at

C12_State ==
  /\ start_ = LastAt("Start") /\ stop_ = LastAt("Stop")
  /\ tsecs # <<>> => tsecs[1] = LastAt("Stop") - LastAt("Start")

C12_Step ==
  /\ TimerStart => stop_' = stop_
  /\ TimerStop => start_' = start_
  /\ TimerSeconds => start_' = start_ /\ stop_' = stop_

\* C12: after any sequence of Start() and Stop() calls Timer::seconds() is the
\* capture of the most recent Stop() (0 if none) minus the capture of the most
\* recent Start() (0 if none); Start() leaves stop_ unchanged, Stop() leaves
\* start_ unchanged and seconds() changes neither.
C12_IntervalTimer == []C12_State /\ [][C12_Step]_vars

\* Start, Stop, Start on an advancing clock, then seconds(): the interval is
\* the older Stop() minus the newer Start(), a negative number.
C12_Witness ==
  /\ tick > 0 /\ Len(tlog) = 3
  /\ tlog[1].op = "Start" /\ tlog[2].op = "Stop" /\ tlog[3].op = "Start"
  /\ tsecs = <<tlog[2].at - tlog[3].at>> /\ tsecs[1] < 0

\* C13: report() writes the N values of seconds(), in order, with exactly
\* N - 1 separators, one between consecutive values and none after the last,
\* and changes no slot and no cursor.
C13_ReportList ==
  [][\A t \in Threads, i \in Inst :
       Report(t, i) =>
         /\ Len(os') = 2 * num_splits - 1
         /\ \A m \in 1..num_splits : os'[2 * m - 1] = seconds(i)[m]
         /\ \A m \in 1..(num_splits - 1) : os'[2 * m] = ","
         /\ splits' = splits /\ split_idx' = split_idx]_vars

\* report() on a full timer of capacity 2 with a fake clock: d,d
C13_Witness ==
  /\ tick > 0 /\ num_splits = 2 /\ Quiet /\ Defined
  /\ HasStart("x") /\ Len(log["x"]) = 3 /\ Consecutive("x")
  /\ Len(os) = 3 /\ os = <<tick, ",", tick>>

\* A step of thread t's own Split() call.
OwnStep(t) == SplitCheck(t) \/ SplitFetchAdd(t) \/ SplitWrite(t)

Recorded(i, k) == \E n \in 1..Len(log[i]) : log[i][n].slot = k /\ splits[i][k] = log[i][n].at

\* A Split() call on i is between its fetch_add and its store, with index k.
Pending(i, k) == \E t \in Live : pc[t] = "write" /\ obj[t] = i /\ idx[t] = k

\* C15 as stated: in every reachable state of a started timer every slot
\* below the cursor (and within 0..N) holds the reading recorded for it.
C15_WriteThenAdvance ==
  \A i \in live :
    HasStart(i) => \A k \in Slots : k < split_idx[i] => Recorded(i, k)

\* C15 amended: Split() advances the cursor and then stores, so every slot
\* below the cursor (and within 0..N) holds the reading recorded for it or is
\* the slot of a call still between its fetch_add and its store; once all
\* calls have returned every slot below the cursor holds its reading.
C15_AdvanceThenWrite ==
  \A i \in live :
    HasStart(i) =>
      /\ \A k \in Slots : k < split_idx[i] => Recorded(i, k) \/ Pending(i, k)
      /\ \A k \in Slots : Pending(i, k) => Writes(i, k) = {}
      /\ \A t \in Live : (Defined /\ pc[t] = "write" /\ obj[t] = i) => idx[t] < split_idx[i]

\* The cursor is 3, slot 2 holds its reading and the call that took index 1
\* has not stored yet.
C15_Witness ==
  /\ num_splits >= 2 /\ HasStart("x") /\ Defined
  /\ split_idx["x"] = 3
  /\ Pending("x", 1) /\ Writes("x", 1) = {} /\ splits["x"][1] = 0
  /\ Recorded("x", 2)

\* C16: in a build with the check, single-threaded, a Split() call that
\* signals overflow changes no slot and no cursor: the cursor is N + 1 before
\* and after, seconds() returns the same vector before and after, the next
\* call meets the same condition, and a later Start() sets the cursor to 1.
C16_FailedSplitNoEffect ==
  [][~ndebug =>
       \A t \in Threads :
         /\ \A i \in Inst :
              (SplitStep(t, i) /\ outcome'[t] = "overflow") =>
                /\ split_idx[i] = num_splits + 1 /\ split_idx'[i] = num_splits + 1
                /\ splits' = splits /\ split_idx' = split_idx
                /\ SecondsLoop(splits'[i], 1, <<>>) = seconds(i)
                /\ pc'[t] = "idle" /\ split_idx'[i] > num_splits
         /\ \A i \in Inst :
              (Split(t, i) /\ split_idx[i] > num_splits) =>
                splits' = splits /\ split_idx' = split_idx
         /\ \A i \in Inst :
              (Start(t, i) /\ outcome[t] = "overflow") =>
                split_idx'[i] = 1 /\ splits'[i][0] = clock]_vars

\* The only timer was full, a Split() on it signalled overflow, and a Start()
\* after that restarted it.
C16_Witness ==
  /\ ~ndebug /\ live = {"x"} /\ outcome[1] = "overflow" /\ Quiet
  /\ HasStart("x") /\ Len(log["x"]) = 1 /\ split_idx["x"] = 1
  /\ \A m \in 1..num_splits : splits["x"][m] # 0

\* Instance i was constructed without start, or copied from such a timer, and
\* no Start() was called on it since.
NeverStarted(i) == i \in live /\ ~HasStart(i)

C17_State ==
  \A i \in live :
    (NeverStarted(i) /\ Quiet /\ Defined) =>
      /\ split_idx[i] = Len(log[i]) /\ Len(log[i]) <= num_splits + 1
      /\ \A n \in 1..Len(log[i]) :
           /\ log[i][n].op = "Split" /\ log[i][n].slot = n - 1
           /\ splits[i][n - 1] = log[i][n].at
      /\ Len(log[i]) = 1 => Obj(i) = StartOn(DefaultInit, log[i][1].at)

C17_Step ==
  \A t \in Threads :
    LET i == obj[t]
    IN  /\ (SplitCheck(t) /\ NeverStarted(i) /\ Len(log[i]) <= num_splits) =>
             pc'[t] = "fetch_add" /\ outcome'[t] = "none"
        /\ (SplitFetchAdd(t) /\ log[i] = <<>>) => idx'[t] = 0 /\ split_idx'[i] = 1
        /\ (SplitWrite(t) /\ log[i] = <<>>) =>
             /\ splits'[i] = StartOn(Obj(i), clock).splits
             /\ split_idx'[i] = StartOn(Obj(i), clock).split_idx
        /\ (~ndebug /\ SplitCheck(t) /\ NeverStarted(i) /\ Len(log[i]) = num_splits + 1) =>
             outcome'[t] = "overflow" /\ splits' = splits /\ split_idx' = split_idx

\* C17: Split() on a timer that was never started is not rejected; the first
\* call stores slot 0 and leaves the cursor at 1, the state Start() produces;
\* N + 1 consecutive calls store slots 0..N, and in a build with the check the
\* call after them signals overflow.
C17_NeverStartedSplit == []C17_State /\ [][C17_Step]_vars

\* N + 1 splits were stored on a never started timer and the next call failed.
C17_Witness ==
  /\ ~ndebug /\ num_splits >= 2 /\ live = {"x"} /\ NeverStarted("x") /\ Quiet
  /\ Len(log["x"]) = num_splits + 1 /\ split_idx["x"] = num_splits + 1
  /\ \A n \in 1..(num_splits + 1) : log["x"][n].slot = n - 1
  /\ outcome[1] = "overflow"

\* C18: single-threaded, on a clock whose readings never decrease: after
\* Start() and k Split() calls within capacity the slots 0..k are
\* non-decreasing in the slot index and the first k values of seconds() are
\* non-negative, also for the slots recorded since a later Start().
C18_NonDecreasing ==
  \A i \in live :
    (HasStart(i) /\ Quiet /\ Defined) =>
      \A n \in 1..(Len(log[i]) - 1) :
        n <= num_splits =>
          /\ splits[i][n - 1] <= splits[i][n]
          /\ seconds(i)[n] >= 0

\* A restarted timer with one split on a later reading: the first value is
\* positive, the second one is computed from an older slot and is negative.
C18_Witness ==
  /\ num_splits >= 2 /\ Restarted("x") /\ Quiet /\ Defined
  /\ Len(log["x"]) = 2
  /\ seconds("x")[1] > 0 /\ seconds("x")[2] < 0

====
